---- MODULE Spec2Model ----
(***************************************************************************)
(* Model of rasa/core/channels/botframework.py: the Bot Framework output   *)
(* channel (class BotFramework: the class-level token cache, _get_headers, *)
(* prepare_message, send and the send_* operations) and the input          *)
(* channel's POST /webhook handler (BotFrameworkInput.blueprint.webhook).  *)
(*                                                                         *)
(* Python dicts are functions from key strings to values (a key is present *)
(* iff it is in the DOMAIN); Python None is NoneVal; strings that are      *)
(* split are sequences of one-character strings.                           *)
(*                                                                         *)
(* Scheduling: every coroutine of the file runs on one asyncio event loop. *)
(* A task gives up the loop only at an await that really suspends.  The    *)
(* HTTP calls are requests.post, a blocking call that is not awaited, so   *)
(* the task keeps the loop while a request is in flight; the wall clock    *)
(* still advances.  The only real suspension point is the backend handler  *)
(* (await on_new_message), which is external code.                         *)
(***************************************************************************)
EXTENDS Integers, Sequences, FiniteSets, TLC

\* ------------------------------------------------------------------ bounds
NumReq == 2        \* requests handled at the same time
MaxTime == 3       \* last tick of the clock
MaxExpiresIn == 1  \* largest expires_in of a token response, in ticks
MaxTextLen == 4    \* longest text given to send_text_message
MaxElements == 2   \* longest list given to send_elements

Requests == 1..NumReq
\* the value of `running` when no task holds the event loop
NoTask == NumReq + 1

\* ------------------------------------------------------------ Python values
NoneVal == [kind |-> "None"]

\* dict.update(other): keys of other win
DictUpdate(d, other) ==
  [k \in DOMAIN d \cup DOMAIN other |-> IF k \in DOMAIN other THEN other[k] ELSE d[k]]

\* dict.setdefault(key, default): the dict after the call
SetDefault(d, key, default) ==
  IF key \in DOMAIN d THEN d ELSE [k \in DOMAIN d \cup {key} |-> IF k = key THEN default ELSE d[k]]

\* d restricted to the keys in P
Restrict(d, P) == [k \in P \cap DOMAIN d |-> d[k]]

\* JSON values handed to json.dumps: tagged, an object is a sequence of
\* <<key, value>> pairs in insertion order
JNull == [kind |-> "null"]
JNum(n) == [kind |-> "num", n |-> n]
JStr(s) == [kind |-> "str", s |-> s]
JObj(pairs) == [kind |-> "obj", pairs |-> pairs]

RECURSIVE JsonDumps(_)
RECURSIVE JsonDumpsPairs(_)
\* json.dumps with the default separators (", " and ": ")
JsonDumps(v) ==
  CASE v.kind = "null" -> "null"
    [] v.kind = "num" -> ToString(v.n)
    [] v.kind = "str" -> "\"" \o v.s \o "\""
    [] v.kind = "obj" -> "{" \o JsonDumpsPairs(v.pairs) \o "}"

JsonDumpsPairs(pairs) ==
  IF pairs = <<>> THEN ""
  ELSE "\"" \o Head(pairs)[1] \o "\": " \o JsonDumps(Head(pairs)[2])
       \o (IF Len(pairs) > 1 THEN ", " ELSE "") \o JsonDumpsPairs(Tail(pairs))

\* --------------------------------------------------------------- str.split
NL == "\n"

RECURSIVE SplitFrom(_, _)
\* text.split("\n\n") scanning left to right; cur is the piece being built
SplitFrom(rest, cur) ==
  IF rest = <<>> THEN <<cur>>
  ELSE IF Len(rest) >= 2 /\ rest[1] = NL /\ rest[2] = NL
       THEN <<cur>> \o SplitFrom(SubSeq(rest, 3, Len(rest)), <<>>)
       ELSE SplitFrom(Tail(rest), Append(cur, Head(rest)))

Split(text) == SplitFrom(text, <<>>)


\* ------------------------------------------------- class BotFramework (pure)
\* BotFramework.name() / BotFrameworkInput.name()
ChannelName == "botframework"

\* variant: the service URL is configured once, not taken from the activity
BotFrameworkFixedUrl(app_id, app_password, conversation, bot, service_url) ==
  [app_id |-> app_id, app_password |-> app_password, conversation |-> conversation,
   global_uri |-> "https://s1/v3/", bot |-> bot]

\* BotFramework.__init__: the fields of an output channel instance
BotFramework(app_id, app_password, conversation, bot, service_url) ==
  [app_id |-> app_id, app_password |-> app_password, conversation |-> conversation,
   global_uri |-> service_url \o "v3/", bot |-> bot]

\* send, lines 92-94: the URI an activity is POSTed to
PostMessageUri(self) ==
  self.global_uri \o "conversations/" \o self.conversation.id \o "/activities"

\* variant: message_data, updated with the defaults (the defaults win)
prepare_message_defaults_win(self, recipient_id, message_data) ==
  DictUpdate(message_data,
             [type |-> "message",
              recipient |-> [id |-> recipient_id],
              from |-> self.bot,
              channelData |-> [notification |-> [alert |-> "true"]],
              text |-> <<>>])

\* prepare_message: the defaults, updated with message_data (message_data wins)
prepare_message(self, recipient_id, message_data) ==
  DictUpdate([type |-> "message",
              recipient |-> [id |-> recipient_id],
              from |-> self.bot,
              channelData |-> [notification |-> [alert |-> "true"]],
              text |-> <<>>],
             message_data)

\* send_custom_json, lines 153-159: whether a setdefault chain hits a value that
\* is not a dict (json_message["recipient"], ["channelData"] or
\* ["channelData"]["notification"] is None): AttributeError
CustomJsonRaises(json_message) ==
  \/ "recipient" \in DOMAIN json_message /\ json_message.recipient = NoneVal
  \/ "channelData" \in DOMAIN json_message /\ json_message.channelData = NoneVal
  \/ /\ "channelData" \in DOMAIN json_message
     /\ json_message.channelData # NoneVal
     /\ "notification" \in DOMAIN json_message.channelData
     /\ json_message.channelData.notification = NoneVal

\* variant: a top-level merge only, as prepare_message does
CustomJsonFilledShallow(self, recipient_id, json_message) ==
  prepare_message(self, recipient_id, json_message)

\* send_custom_json, lines 153-159: json_message after the setdefault chain
\* (defined when CustomJsonRaises is false)
CustomJsonFilled(self, recipient_id, json_message) ==
  LET m1 == SetDefault(json_message, "type", "message")
      m2 == SetDefault(m1, "recipient", <<>>)
      m3 == [m2 EXCEPT !["recipient"] = SetDefault(m2.recipient, "id", recipient_id)]
      m4 == SetDefault(m3, "from", self.bot)
      m5 == SetDefault(m4, "channelData", <<>>)
      cd == SetDefault(m5.channelData, "notification", <<>>)
      nt == SetDefault(cd.notification, "alert", "true")
      m6 == [m5 EXCEPT !["channelData"] = [cd EXCEPT !["notification"] = nt]]
  IN  SetDefault(m6, "text", <<>>)

\* send_custom_json, lines 153-159: the caller's json_message object once the
\* setdefault chain is over, or has raised part of the way (the chain writes
\* into the object it was given)
CustomJsonAfter(self, recipient_id, json_message) ==
  LET m1 == SetDefault(json_message, "type", "message")
      m2 == SetDefault(m1, "recipient", <<>>)
  IN IF m2.recipient = NoneVal THEN m2
     ELSE LET m3 == [m2 EXCEPT !["recipient"] = SetDefault(m2.recipient, "id", recipient_id)]
              m4 == SetDefault(m3, "from", self.bot)
              m5 == SetDefault(m4, "channelData", <<>>)
          IN IF m5.channelData = NoneVal THEN m5
             ELSE LET cd == SetDefault(m5.channelData, "notification", <<>>)
                  IN IF cd.notification = NoneVal
                     THEN [m5 EXCEPT !["channelData"] = cd]
                     ELSE CustomJsonFilled(self, recipient_id, json_message)

\* send_image_url, lines 117-122: the message_data given to prepare_message
ImageMessage(image) ==
  [attachments |-> << [contentType |-> "application/vnd.microsoft.card.hero",
                       content |-> [images |-> << [url |-> image] >>]] >>]

\* send_text_with_buttons, lines 133-138: the message_data given to
\* prepare_message
ButtonsMessage(text, buttons) ==
  [attachments |-> << [contentType |-> "application/vnd.microsoft.card.hero",
                       content |-> [subtitle |-> text, buttons |-> buttons]] >>]

\* int(token_expiration), line 65: an int is itself, a string is parsed as a
\* decimal numeral (ValueError when it is not one)
PyIntRaises(v) == v.kind = "str" /\ ~ \E n \in 0..99 : ToString(n) = v.s

PyInt(v) == IF v.kind = "num" THEN v.n ELSE CHOOSE n \in 0..99 : ToString(n) = v.s

\* variant: the cache is never trusted
TokenExpiredAlways(expiration, current) == TRUE

\* _get_headers, line 47: the cached token counts as expired
TokenExpired(expiration, current) == expiration < current

\* _get_headers, lines 51-56: the form the token request is POSTed with
TokenPayload(self) ==
  [client_id |-> self.app_id, client_secret |-> self.app_password,
   grant_type |-> "client_credentials",
   scope |-> "https://api.botframework.com/.default"]

\* the token endpoint: the access tokens it issues to a client
IssuedTo(payload) == IF payload.client_id = "app-id" THEN {"t1", "t2"} ELSE {"u1"}

\* variant: an instance trusts only a token issued to its own credentials
MustRefreshOwn(self, cached, expiration, current) ==
  \/ TokenExpired(expiration, current)
  \/ cached = NoneVal
  \/ \A t \in IssuedTo(TokenPayload(self)) : cached.Authorization # "Bearer " \o t

\* _get_headers, line 47: the test reads the class attribute alone; the
\* instance and its credentials play no part in it
MustRefresh(self, cached, expiration, current) == TokenExpired(expiration, current)

\* _get_headers, lines 61-65: a success response whose body makes the parse raise
\* (KeyError on a missing key, ValueError in int())
TokenDataRaises(token_data) ==
  \/ "access_token" \notin DOMAIN token_data
  \/ "expires_in" \notin DOMAIN token_data
  \/ PyIntRaises(token_data.expires_in)

\* _get_headers, lines 68-71
BearerHeaders(access_token) ==
  [kind |-> "dict", content_type |-> "application/json",
   Authorization |-> "Bearer " \o access_token]

\* requests.post (lines 58, 96) is a blocking call that is not awaited: the task
\* does not give up the event loop while the request is in flight
\* variant: an awaited, non-blocking HTTP client
RequestsPostSuspendsAwaited == TRUE

RequestsPostSuspends == FALSE

\* variant: the failed refresh hands back the headers cached before it
ReturnedOnFailureStale(cached) == cached

\* _get_headers, lines 73-74: the else branch only logs and the function falls
\* off its end, so the call returns None
ReturnedOnFailure(cached) == NoneVal

\* variant: a failed refresh clears the cached headers
HeadersOnFailureCleared(cached) == NoneVal

\* _get_headers, lines 73-74: BotFramework.headers after a token response that is
\* not ok (nothing is assigned)
HeadersOnFailure(cached) == cached

\* variant: a failed refresh puts off the next attempt by a tick
ExpirationOnFailureDeferred(expiration, current) == current + 1

\* _get_headers, lines 73-74: BotFramework.token_expiration_date after a token
\* response that is not ok (nothing is assigned)
ExpirationOnFailure(expiration, current) == expiration

\* variant: only the first token's headers are stored
StoredHeadersOnce(cached, access_token) ==
  IF cached = NoneVal THEN BearerHeaders(access_token) ELSE cached

\* _get_headers, lines 68-71: BotFramework.headers after a successful refresh
StoredHeaders(cached, access_token) == BearerHeaders(access_token)

\* variant: a response that is not ok raises too (raise_for_status)
PostRaisesOnStatus(resp) == resp # "ok"

\* send, lines 96-104: requests.post raises when no response arrives; a response
\* that is not ok is logged
PostRaises(resp) == resp = "error"

\* ------------------------------------------- class BotFrameworkInput (pure)
\* sanic's request.json at line 200: an empty body parses to None, a body that
\* is not JSON raises InvalidUsage (outside the try block)
RequestJsonRaises(body) == body.kind = "invalid"

RequestJson(body) == IF body.kind = "json" THEN body.data ELSE NoneVal

\* the normalized inbound message (rasa.core.channels.channel.UserMessage)
UserMessage(text, output_channel, sender_id, input_channel, metadata) ==
  [text |-> text, output_channel |-> output_channel, sender_id |-> sender_id,
   input_channel |-> input_channel, metadata |-> metadata]

\* postdata.get(key) is truthy, for a list or a string value
Truthy(postdata, key, empty) == key \in DOMAIN postdata /\ postdata[key] # empty

\* postdata["from"]["id"] raises KeyError
FromIdRaises(postdata) ==
  "from" \notin DOMAIN postdata \/ "id" \notin DOMAIN postdata["from"]

\* variant: a non-empty text is tried before the attachments
AttachmentsFirstSwapped(postdata) ==
  Truthy(postdata, "attachments", <<>>) /\ ~ Truthy(postdata, "text", "")

\* line 213: the attachments branch is tried first
AttachmentsFirst(postdata) == Truthy(postdata, "attachments", <<>>)

\* variant: a missing sender id is passed on as None (a .get chain)
SenderIdOrNone(postdata) ==
  IF FromIdRaises(postdata) THEN [raised |-> FALSE, v |-> "None"]
  ELSE [raised |-> FALSE, v |-> postdata["from"].id]

\* lines 219, 226, 233: sender_id=postdata["from"]["id"]
SenderId(postdata) ==
  IF FromIdRaises(postdata) THEN [raised |-> TRUE]
  ELSE [raised |-> FALSE, v |-> postdata["from"].id]

\* webhook, lines 213-235: the UserMessage built from a message activity, or
\* the exception raised while building it
BuildUserMessage(postdata, out_channel) ==
  LET sid == SenderId(postdata) IN
  IF AttachmentsFirst(postdata)
  THEN IF sid.raised THEN [raised |-> TRUE]
       ELSE [raised |-> FALSE,
             msg |-> UserMessage(IF Truthy(postdata, "text", "") THEN postdata.text ELSE "",
                                 out_channel, sid.v, ChannelName,
                                 [attachments |-> postdata.attachments])]
  ELSE IF Truthy(postdata, "text", "")
  THEN IF sid.raised THEN [raised |-> TRUE]
       ELSE [raised |-> FALSE,
             msg |-> UserMessage(postdata.text, out_channel, sid.v, ChannelName, NoneVal)]
  ELSE IF "value" \notin DOMAIN postdata \/ sid.raised THEN [raised |-> TRUE]
       ELSE [raised |-> FALSE,
             msg |-> UserMessage(JsonDumps(postdata.value), out_channel, sid.v,
                                 ChannelName, NoneVal)]

\* variant: the activity type is not looked at
IsMessageTypeUnchecked(postdata) == TRUE

\* line 203
IsMessageType(postdata) == postdata.type = "message"

\* webhook, lines 200-244, up to the await of the handler: what one request does
\*   bad_request: request.json raised outside the try (sanic answers 400)
\*   caught:      an exception inside the try, logged and swallowed
\*   ignored:     not a message activity
\*   dispatch:    on_new_message(user_msg) is awaited
WebhookOutcome(self, body) ==
  IF RequestJsonRaises(body) THEN [result |-> "bad_request"]
  ELSE LET postdata == RequestJson(body) IN
    IF postdata = NoneVal \/ "type" \notin DOMAIN postdata THEN [result |-> "caught"]
    ELSE IF ~ IsMessageType(postdata) THEN [result |-> "ignored"]
    ELSE IF ~ ({"conversation", "recipient", "serviceUrl"} \subseteq DOMAIN postdata)
    THEN [result |-> "caught"]
    ELSE LET oc == BotFramework(self.app_id, self.app_password, postdata.conversation,
                                postdata.recipient, postdata.serviceUrl)
             um == BuildUserMessage(postdata, oc)
         IN IF um.raised THEN [result |-> "caught"]
            ELSE [result |-> "dispatch", out_channel |-> oc, user_msg |-> um.msg]


\* -------------------------------------------------------------------- state
VARIABLES
  now,                    \* datetime.datetime.now(), in ticks
  token_expiration_date,  \* BotFramework.token_expiration_date (class attribute)
  headers,                \* BotFramework.headers (class attribute)
  running,                \* the task holding the event loop, or NoTask
  pc,                     \* per request: where its task is
  body,                   \* per request: the body it was POSTed with
  response,               \* per request: the HTTP response, "none" before it
  out_channel,            \* per request: the BotFramework instance built for it
  user_msg,               \* per request: the argument of on_new_message
  handlerCalls,           \* per request: invocations of on_new_message
  op,                     \* per request: the send operation in progress
  queue,                  \* per request: items the operation's loop has yet to send
  message_data,           \* per request: send()'s argument
  send_headers,           \* per request: send()'s local `headers`
  posted,                 \* per request: activity POSTs issued by the operation,
                          \*   each with the response it ended with
  gh,                     \* per request: record of the _get_headers call of send()
  sendResult              \* per request: how the operation's last send() ended

vars == <<now, token_expiration_date, headers, running, pc, body, response,
          out_channel, user_msg, handlerCalls, op, queue, message_data,
          send_headers, posted, gh, sendResult>>

NoOp == [kind |-> "none"]
NoGh == [kind |-> "none"]

\* BotFrameworkInput.__init__: the credentials every output channel is built with
InputChannel == [app_id |-> "app-id", app_password |-> "app-secret"]

\* a second input channel, of another application, in the same process
OtherInputChannel == [app_id |-> "app-id-2", app_password |-> "app-secret-2"]

\* class body of BotFramework (lines 23-25) runs at import, at tick 0: the
\* expiration date is the time of import and there are no headers.  The server
\* takes requests later, when the clock has moved on.
Init ==
  /\ now = 1
  /\ token_expiration_date = 0
  /\ headers = NoneVal
  /\ running = NoTask
  /\ pc = [r \in Requests |-> "new"]
  /\ body = [r \in Requests |-> NoneVal]
  /\ response = [r \in Requests |-> "none"]
  /\ out_channel = [r \in Requests |-> NoneVal]
  /\ user_msg = [r \in Requests |-> NoneVal]
  /\ handlerCalls = [r \in Requests |-> 0]
  /\ op = [r \in Requests |-> NoOp]
  /\ queue = [r \in Requests |-> <<>>]
  /\ message_data = [r \in Requests |-> NoneVal]
  /\ send_headers = [r \in Requests |-> NoneVal]
  /\ posted = [r \in Requests |-> <<>>]
  /\ gh = [r \in Requests |-> NoGh]
  /\ sendResult = [r \in Requests |-> "none"]

\* ------------------------------------------------------------------ actions
\* the wall clock advances, whatever the tasks do
Tick ==
  /\ now < MaxTime
  /\ now' = now + 1
  /\ UNCHANGED <<token_expiration_date, headers, running, pc, body, response,
                 out_channel, user_msg, handlerCalls, op, queue, message_data,
                 send_headers, posted, gh, sendResult>>

\* variant: the handler is started and the request answered at once
DispatchResponseEarly == "success"

\* webhook, line 236: the handler is awaited, so no response exists while the
\* request is at the await
DispatchResponse == "none"

\* POST /webhook with body b on the blueprint of the input channel self: lines
\* 199-244 up to the await of the handler, and to the response when the handler
\* is not reached.  r is the lowest free slot of the requests in progress.
WebhookOn(self, r, b) ==
  /\ pc[r] = "new"
  /\ \A q \in Requests : q < r => pc[q] # "new"
  /\ running = NoTask
  /\ LET out == WebhookOutcome(self, b) IN
     /\ body' = [body EXCEPT ![r] = b]
     /\ response' = [response EXCEPT ![r] =
                       CASE out.result = "bad_request" -> "400"
                         [] out.result = "dispatch" -> DispatchResponse
                         [] OTHER -> "success"]
     /\ pc' = [pc EXCEPT ![r] = IF out.result = "dispatch" THEN "handler" ELSE "responded"]
     /\ running' = IF out.result = "dispatch" THEN NoTask ELSE r
     /\ out_channel' = [out_channel EXCEPT ![r] =
                          IF out.result = "dispatch" THEN out.out_channel ELSE NoneVal]
     /\ user_msg' = [user_msg EXCEPT ![r] =
                       IF out.result = "dispatch" THEN out.user_msg ELSE NoneVal]
     /\ handlerCalls' = [handlerCalls EXCEPT ![r] =
                           IF out.result = "dispatch" THEN @ + 1 ELSE @]
  /\ UNCHANGED <<now, token_expiration_date, headers, op, queue, message_data,
                 send_headers, posted, gh, sendResult>>

\* POST /webhook with body b on the one input channel of the process
Webhook(r, b) == WebhookOn(InputChannel, r, b)

\* on_new_message returns: line 236 completes, line 244 answers
HandlerReturn(r) ==
  /\ pc[r] = "handler"
  /\ running = NoTask
  /\ pc' = [pc EXCEPT ![r] = "responded"]
  /\ running' = r
  /\ response' = [response EXCEPT ![r] = "success"]
  /\ UNCHANGED <<now, token_expiration_date, headers, body, out_channel, user_msg,
                 handlerCalls, op, queue, message_data, send_headers, posted, gh,
                 sendResult>>

\* on_new_message raises an Exception: lines 239-244 log it and answer
HandlerRaise(r) ==
  /\ pc[r] = "handler"
  /\ running = NoTask
  /\ pc' = [pc EXCEPT ![r] = "responded"]
  /\ running' = r
  /\ response' = [response EXCEPT ![r] = "success"]
  /\ UNCHANGED <<now, token_expiration_date, headers, body, out_channel, user_msg,
                 handlerCalls, op, queue, message_data, send_headers, posted, gh,
                 sendResult>>

\* the response is out and the request's task is over: its locals are gone and
\* its slot is free for the next request
RequestEnds(r) ==
  /\ pc[r] = "responded"
  /\ running = r
  /\ pc' = [pc EXCEPT ![r] = "new"]
  /\ running' = NoTask
  /\ body' = [body EXCEPT ![r] = NoneVal]
  /\ response' = [response EXCEPT ![r] = "none"]
  /\ out_channel' = [out_channel EXCEPT ![r] = NoneVal]
  /\ user_msg' = [user_msg EXCEPT ![r] = NoneVal]
  /\ handlerCalls' = [handlerCalls EXCEPT ![r] = 0]
  /\ UNCHANGED <<now, token_expiration_date, headers, op, queue, message_data,
                 send_headers, posted, gh, sendResult>>

\* the message one item of an operation's loop is sent as
ItemMessage(self, o, item) ==
  IF o.kind = "send_text_message"
  THEN prepare_message(self, o.recipient_id, [text |-> item])
  ELSE prepare_message(self, o.recipient_id, item)

\* the handler calls out_channel.send_text_message(recipient_id, text):
\* lines 109-112, up to the first send()
SendTextMessage(r, recipient_id, text) ==
  /\ pc[r] = "handler"
  /\ running = NoTask
  /\ LET o == [kind |-> "send_text_message", recipient_id |-> recipient_id, text |-> text]
         parts == Split(text)
     IN /\ op' = [op EXCEPT ![r] = o]
        /\ message_data' = [message_data EXCEPT ![r] =
                              ItemMessage(out_channel[r], o, Head(parts))]
        /\ queue' = [queue EXCEPT ![r] = Tail(parts)]
  /\ sendResult' = [sendResult EXCEPT ![r] = "running"]
  /\ pc' = [pc EXCEPT ![r] = "get_headers"]
  /\ running' = r
  /\ UNCHANGED <<now, token_expiration_date, headers, body, response, out_channel,
                 user_msg, handlerCalls, send_headers, posted, gh>>

\* the handler calls out_channel.send_custom_json(recipient_id, json_message):
\* lines 153-160, up to send(), or the AttributeError of a setdefault chain
SendCustomJson(r, recipient_id, json_message) ==
  /\ pc[r] = "handler"
  /\ running = NoTask
  /\ op' = [op EXCEPT ![r] =
              [kind |-> "send_custom_json", recipient_id |-> recipient_id,
               json_message |-> json_message,
               obj |-> CustomJsonAfter(out_channel[r], recipient_id, json_message)]]
  /\ running' = r
  /\ IF CustomJsonRaises(json_message)
     THEN /\ pc' = [pc EXCEPT ![r] = "op_end"]
          /\ UNCHANGED <<message_data, sendResult>>
     ELSE /\ message_data' = [message_data EXCEPT ![r] =
                                CustomJsonFilled(out_channel[r], recipient_id, json_message)]
          /\ sendResult' = [sendResult EXCEPT ![r] = "running"]
          /\ pc' = [pc EXCEPT ![r] = "get_headers"]
  /\ UNCHANGED <<now, token_expiration_date, headers, body, response, out_channel,
                 user_msg, handlerCalls, queue, send_headers, posted, gh>>

\* the handler calls out_channel.send_image_url(recipient_id, image):
\* lines 117-124, up to send()
SendImageUrl(r, recipient_id, image) ==
  /\ pc[r] = "handler"
  /\ running = NoTask
  /\ LET o == [kind |-> "send_image_url", recipient_id |-> recipient_id, image |-> image]
     IN /\ op' = [op EXCEPT ![r] = o]
        /\ message_data' = [message_data EXCEPT ![r] =
                              ItemMessage(out_channel[r], o, ImageMessage(image))]
  /\ sendResult' = [sendResult EXCEPT ![r] = "running"]
  /\ pc' = [pc EXCEPT ![r] = "get_headers"]
  /\ running' = r
  /\ UNCHANGED <<now, token_expiration_date, headers, body, response, out_channel,
                 user_msg, handlerCalls, queue, send_headers, posted, gh>>

\* the handler calls out_channel.send_text_with_buttons(recipient_id, text,
\* buttons): lines 133-140, up to send()
SendTextWithButtons(r, recipient_id, text, buttons) ==
  /\ pc[r] = "handler"
  /\ running = NoTask
  /\ LET o == [kind |-> "send_text_with_buttons", recipient_id |-> recipient_id,
               text |-> text, buttons |-> buttons]
     IN /\ op' = [op EXCEPT ![r] = o]
        /\ message_data' = [message_data EXCEPT ![r] =
                              ItemMessage(out_channel[r], o, ButtonsMessage(text, buttons))]
  /\ sendResult' = [sendResult EXCEPT ![r] = "running"]
  /\ pc' = [pc EXCEPT ![r] = "get_headers"]
  /\ running' = r
  /\ UNCHANGED <<now, token_expiration_date, headers, body, response, out_channel,
                 user_msg, handlerCalls, queue, send_headers, posted, gh>>

\* the handler calls out_channel.send_elements(recipient_id, elements):
\* lines 145-147, up to the first send(), or to the end when there is no element.
\* prepare_message copies each element into a new dict, so the elements stay as
\* the caller gave them (obj).
SendElements(r, recipient_id, elements) ==
  /\ pc[r] = "handler"
  /\ running = NoTask
  /\ LET o == [kind |-> "send_elements", recipient_id |-> recipient_id,
               elements |-> elements, obj |-> elements]
     IN /\ op' = [op EXCEPT ![r] = o]
        /\ IF elements = <<>>
           THEN /\ pc' = [pc EXCEPT ![r] = "op_end"]
                /\ sendResult' = [sendResult EXCEPT ![r] = "returned"]
                /\ UNCHANGED <<message_data, queue>>
           ELSE /\ message_data' = [message_data EXCEPT ![r] =
                                      ItemMessage(out_channel[r], o, Head(elements))]
                /\ queue' = [queue EXCEPT ![r] = Tail(elements)]
                /\ sendResult' = [sendResult EXCEPT ![r] = "running"]
                /\ pc' = [pc EXCEPT ![r] = "get_headers"]
  /\ running' = r
  /\ UNCHANGED <<now, token_expiration_date, headers, body, response, out_channel,
                 user_msg, handlerCalls, send_headers, posted, gh>>

\* the task that may take r's next step inside send(): r itself while it holds
\* the loop through a blocking call
Holder(r) == IF RequestsPostSuspends THEN NoTask ELSE r

\* send() ends with an exception, which leaves the operation's loop
SendRaises(r) ==
  /\ pc' = [pc EXCEPT ![r] = "op_end"]
  /\ running' = r
  /\ sendResult' = [sendResult EXCEPT ![r] = "raised"]
  /\ queue' = [queue EXCEPT ![r] = <<>>]
  /\ message_data' = [message_data EXCEPT ![r] = NoneVal]
  /\ send_headers' = [send_headers EXCEPT ![r] = NoneVal]
  /\ gh' = [gh EXCEPT ![r] = NoGh]

\* _get_headers, lines 47-58 and 75-76: the expiry check, then either the token
\* request is issued or the cached headers are returned
GetHeaders(r) ==
  /\ pc[r] = "get_headers"
  /\ running = r
  /\ IF MustRefresh(out_channel[r], headers, token_expiration_date, now)
     THEN /\ pc' = [pc EXCEPT ![r] = "token_wait"]
          /\ running' = Holder(r)
          /\ gh' = [gh EXCEPT ![r] = [kind |-> "call", exp |-> token_expiration_date,
                                      at |-> now, cached |-> headers, calls |-> 1,
                                      resp |-> NoneVal, stored_at |-> 0]]
          /\ UNCHANGED send_headers
     ELSE /\ pc' = [pc EXCEPT ![r] = "activity_post"]
          /\ send_headers' = [send_headers EXCEPT ![r] = headers]
          /\ gh' = [gh EXCEPT ![r] = [kind |-> "call", exp |-> token_expiration_date,
                                      at |-> now, cached |-> headers, calls |-> 0,
                                      resp |-> NoneVal, stored_at |-> 0]]
          /\ UNCHANGED running
  /\ UNCHANGED <<now, token_expiration_date, headers, body, response, out_channel,
                 user_msg, handlerCalls, op, queue, message_data, posted, sendResult>>

\* _get_headers, lines 58-74: the token request ends with resp
TokenResponse(r, resp) ==
  /\ pc[r] = "token_wait"
  /\ running = Holder(r)
  /\ (resp.kind = "response" /\ resp.ok /\ "access_token" \in DOMAIN resp.data) =>
       resp.data.access_token \in IssuedTo(TokenPayload(out_channel[r]))
  /\ IF resp.kind = "error" \/ (resp.ok /\ TokenDataRaises(resp.data))
     THEN /\ SendRaises(r)
          /\ UNCHANGED <<token_expiration_date, headers>>
     ELSE /\ pc' = [pc EXCEPT ![r] = "activity_post"]
          /\ running' = r
          /\ gh' = [gh EXCEPT ![r].resp = resp, ![r].stored_at = now]
          /\ UNCHANGED <<sendResult, queue, message_data>>
          /\ IF resp.ok
             THEN /\ token_expiration_date' = now + PyInt(resp.data.expires_in)
                  /\ headers' = StoredHeaders(headers, resp.data.access_token)
                  /\ send_headers' = [send_headers EXCEPT ![r] =
                                        StoredHeaders(headers, resp.data.access_token)]
             ELSE /\ send_headers' = [send_headers EXCEPT ![r] = ReturnedOnFailure(headers)]
                  /\ token_expiration_date' =
                       ExpirationOnFailure(token_expiration_date, now)
                  /\ headers' = HeadersOnFailure(headers)
  /\ UNCHANGED <<now, body, response, out_channel, user_msg, handlerCalls, op, posted>>

\* send, lines 96-98: the activity POST is issued
ActivityPost(r) ==
  /\ pc[r] = "activity_post"
  /\ running = r
  /\ posted' = [posted EXCEPT ![r] =
                  Append(@, [uri |-> PostMessageUri(out_channel[r]),
                             headers |-> send_headers[r],
                             data |-> message_data[r],
                             resp |-> "pending"])]
  /\ pc' = [pc EXCEPT ![r] = "activity_wait"]
  /\ running' = Holder(r)
  /\ UNCHANGED <<now, token_expiration_date, headers, body, response, out_channel,
                 user_msg, handlerCalls, op, queue, message_data, send_headers, gh,
                 sendResult>>

\* send, lines 96-104, and the loop of the operation that called it: the POST
\* ends with resp ("ok", "not_ok": logged, or "error": requests.post raises)
ActivityResponse(r, resp) ==
  /\ pc[r] = "activity_wait"
  /\ running = Holder(r)
  /\ posted' = [posted EXCEPT ![r][Len(posted[r])].resp = resp]
  /\ IF PostRaises(resp)
     THEN SendRaises(r)
     ELSE /\ gh' = [gh EXCEPT ![r] = NoGh]
          /\ running' = r
          /\ send_headers' = [send_headers EXCEPT ![r] = NoneVal]
          /\ IF queue[r] # <<>>
             THEN /\ message_data' = [message_data EXCEPT ![r] =
                                        ItemMessage(out_channel[r], op[r], Head(queue[r]))]
                  /\ queue' = [queue EXCEPT ![r] = Tail(@)]
                  /\ pc' = [pc EXCEPT ![r] = "get_headers"]
                  /\ sendResult' = [sendResult EXCEPT ![r] = "running"]
             ELSE /\ pc' = [pc EXCEPT ![r] = "op_end"]
                  /\ sendResult' = [sendResult EXCEPT ![r] = "returned"]
                  /\ message_data' = [message_data EXCEPT ![r] = NoneVal]
                  /\ UNCHANGED queue
  /\ UNCHANGED <<now, token_expiration_date, headers, body, response, out_channel,
                 user_msg, handlerCalls, op>>

\* the operation is over (its last send() returned, or an exception left it):
\* control is back in the handler, which may suspend
OperationEnds(r) ==
  /\ pc[r] = "op_end"
  /\ running = r
  /\ pc' = [pc EXCEPT ![r] = "handler"]
  /\ running' = NoTask
  /\ op' = [op EXCEPT ![r] = NoOp]
  /\ posted' = [posted EXCEPT ![r] = <<>>]
  /\ sendResult' = [sendResult EXCEPT ![r] = "none"]
  /\ UNCHANGED <<now, token_expiration_date, headers, body, response, out_channel,
                 user_msg, handlerCalls, queue, message_data, send_headers, gh>>

\* ------------------------------------------------------------------- inputs
Json(d) == [kind |-> "json", data |-> d]

MessageActivity(conv, bot, url) ==
  [type |-> "message", conversation |-> [id |-> conv], recipient |-> [id |-> bot],
   serviceUrl |-> url, from |-> [id |-> "user-1"], text |-> "hello"]

\* request bodies of the full system
Bodies ==
  { [kind |-> "invalid"], [kind |-> "empty"],
    Json([type |-> "conversationUpdate", conversation |-> [id |-> "c1"],
          recipient |-> [id |-> "bot-1"], serviceUrl |-> "https://s1/",
          from |-> [id |-> "user-1"]]),
    Json([type |-> "invoke", conversation |-> [id |-> "c1"],
          recipient |-> [id |-> "bot-1"], serviceUrl |-> "https://s1/",
          from |-> [id |-> "user-1"], value |-> JObj(<< <<"foo", JNum(1)>> >>)]),
    Json(MessageActivity("c1", "bot-1", "https://s1/")),
    Json(MessageActivity("c2", "bot-2", "https://s2/")),
    Json(Restrict(MessageActivity("c1", "bot-1", "https://s1/"),
                  {"type", "conversation", "recipient", "serviceUrl", "text"})) }

ActivityKeys ==
  {"type", "conversation", "recipient", "serviceUrl", "from", "attachments", "text",
   "value"}

FooOne == JObj(<< <<"foo", JNum(1)>> >>)

\* request bodies of the inbound system: every subset of the keys of every
\* activity below, an empty body and a body that is not JSON
InboundBodies ==
  { [kind |-> "invalid"], [kind |-> "empty"] }
  \cup { Json(Restrict(a, P)) :
         a \in [type : {"message", "conversationUpdate"},
                conversation : {[id |-> "c1"]},
                recipient : {[id |-> "bot-1"]},
                serviceUrl : {"https://s1/"},
                from : {[id |-> "user-1"], [name |-> "User"]},
                attachments : {<<>>, <<[contentType |-> "image/png"]>>},
                text : {"", "hello"},
                value : {JNull, FooOne}],
         P \in SUBSET ActivityKeys }

OutboundBodies == { Json(MessageActivity("c1", "bot-1", "https://s1/")) }

RecipientIds == {"user-1"}

\* texts of at most n characters over {a, newline}
RECURSIVE TextsUpTo(_)
TextsUpTo(n) ==
  IF n = 0 THEN {<<>>}
  ELSE LET S == TextsUpTo(n - 1) IN
       S \cup {Append(t, c) : t \in {u \in S : Len(u) = n - 1}, c \in {"a", NL}}

Texts == {<<>>, <<"a", NL, NL, "a">>}

OutboundTexts == TextsUpTo(MaxTextLen)

CustomMessages == { [text |-> <<"h", "i">>], [recipient |-> NoneVal] }

CustomKeys == {"type", "recipient", "from", "channelData", "text", "attachments"}

\* json_message arguments of the outbound system: every subset of the keys of
\* every message below
OutboundCustomMessages ==
  { Restrict(m, P) :
    m \in [type : {"event"},
           recipient : {NoneVal, [name |-> "User"], [id |-> "user-2", name |-> "User"]},
           from : {[id |-> "bot-9"]},
           channelData : {NoneVal, [tenant |-> "t"], [notification |-> NoneVal],
                          [notification |-> [sound |-> "off"], tenant |-> "t"],
                          [notification |-> [alert |-> "false"]]},
           text : {<<"h", "i">>},
           attachments : {<<"card">>}],
    P \in SUBSET CustomKeys }

Images == {"https://i/1.png"}

ButtonTexts == {"pick"}

ButtonLists == { <<>>, << [title |-> "Yes", payload |-> "/yes"] >> }

FullElement ==
  [type |-> "event", recipient |-> [name |-> "User"], from |-> [id |-> "bot-9"],
   channelData |-> [tenant |-> "t"], text |-> <<"h", "i">>, attachments |-> <<"card">>]

\* element lists of the full system
Elements ==
  { <<>>, << [text |-> <<"h", "i">>], Restrict(FullElement, {"type", "from"}) >> }

\* elements of the outbound system: none, each and all of the keys of FullElement
ElementItems ==
  { Restrict(FullElement, P) :
    P \in {{}, DOMAIN FullElement} \cup {{k} : k \in DOMAIN FullElement} }

\* the lists of at most n members of S
RECURSIVE SeqsUpTo(_, _)
SeqsUpTo(S, n) ==
  IF n = 0 THEN {<<>>}
  ELSE LET T == SeqsUpTo(S, n - 1) IN
       T \cup {Append(t, e) : t \in {u \in T : Len(u) = n - 1}, e \in S}

OutboundElements == SeqsUpTo(ElementItems, MaxElements)

ExpiresIns == {JNum(n) : n \in 1..MaxExpiresIn} \cup {JStr(ToString(MaxExpiresIn))}

TokenResponses ==
  { [kind |-> "error"], [kind |-> "response", ok |-> FALSE, data |-> NoneVal] }
  \cup { [kind |-> "response", ok |-> TRUE, data |-> d] :
         d \in { [access_token |-> t, expires_in |-> e] :
                 t \in {"t1", "t2", "u1"}, e \in ExpiresIns }
               \cup { [access_token |-> "t1"], [expires_in |-> JNum(1)],
                      [access_token |-> "t1", expires_in |-> JStr("soon")] } }

PostResponses == {"ok", "not_ok", "error"}

\* ----------------------------------------------------------- specifications
\* the full system: NumReq requests in progress at a time
Next ==
  \/ Tick
  \/ \E r \in Requests, b \in Bodies : Webhook(r, b)
  \/ \E r \in Requests : HandlerReturn(r)
  \/ \E r \in Requests : HandlerRaise(r)
  \/ \E r \in Requests : RequestEnds(r)
  \/ \E r \in Requests, id \in RecipientIds, text \in Texts : SendTextMessage(r, id, text)
  \/ \E r \in Requests, id \in RecipientIds, m \in CustomMessages : SendCustomJson(r, id, m)
  \/ \E r \in Requests, id \in RecipientIds, image \in Images : SendImageUrl(r, id, image)
  \/ \E r \in Requests, id \in RecipientIds, text \in ButtonTexts, buttons \in ButtonLists :
       SendTextWithButtons(r, id, text, buttons)
  \/ \E r \in Requests, id \in RecipientIds, es \in Elements : SendElements(r, id, es)
  \/ \E r \in Requests : GetHeaders(r)
  \/ \E r \in Requests, resp \in TokenResponses : TokenResponse(r, resp)
  \/ \E r \in Requests : ActivityPost(r)
  \/ \E r \in Requests, resp \in PostResponses : ActivityResponse(r, resp)
  \/ \E r \in Requests : OperationEnds(r)

Spec == Init /\ [][Next]_vars

\* the inbound system: one request at a time, any body, a handler that sends
\* nothing
NextInbound ==
  \/ \E b \in InboundBodies : Webhook(1, b)
  \/ HandlerReturn(1)
  \/ HandlerRaise(1)
  \/ RequestEnds(1)

SpecInbound == Init /\ [][NextInbound]_vars

\* the outbound system: one request at a time, whose handler sends any text
\* and any custom message
NextOutbound ==
  \/ Tick
  \/ \E b \in OutboundBodies : Webhook(1, b)
  \/ HandlerReturn(1)
  \/ RequestEnds(1)
  \/ \E id \in RecipientIds, text \in OutboundTexts : SendTextMessage(1, id, text)
  \/ \E id \in RecipientIds, m \in OutboundCustomMessages : SendCustomJson(1, id, m)
  \/ \E id \in RecipientIds, image \in Images : SendImageUrl(1, id, image)
  \/ \E id \in RecipientIds, text \in ButtonTexts, buttons \in ButtonLists :
       SendTextWithButtons(1, id, text, buttons)
  \/ GetHeaders(1)
  \/ \E resp \in TokenResponses : TokenResponse(1, resp)
  \/ ActivityPost(1)
  \/ \E resp \in PostResponses : ActivityResponse(1, resp)
  \/ OperationEnds(1)

SpecOutbound == Init /\ [][NextOutbound]_vars

\* token responses of the delivery system: none, one that is not ok, a token
DeliveryTokenResponses ==
  { [kind |-> "error"], [kind |-> "response", ok |-> FALSE, data |-> NoneVal],
    [kind |-> "response", ok |-> TRUE,
     data |-> [access_token |-> "t1", expires_in |-> JNum(MaxExpiresIn)]] }

\* the delivery system: one request at a time, whose handler sends any text,
\* image, buttons and list of elements, while the clock stands still
NextDelivery ==
  \/ \E b \in OutboundBodies : Webhook(1, b)
  \/ HandlerReturn(1)
  \/ RequestEnds(1)
  \/ \E id \in RecipientIds, text \in OutboundTexts : SendTextMessage(1, id, text)
  \/ \E id \in RecipientIds, image \in Images : SendImageUrl(1, id, image)
  \/ \E id \in RecipientIds, text \in ButtonTexts, buttons \in ButtonLists :
       SendTextWithButtons(1, id, text, buttons)
  \/ \E id \in RecipientIds, es \in OutboundElements : SendElements(1, id, es)
  \/ GetHeaders(1)
  \/ \E resp \in DeliveryTokenResponses : TokenResponse(1, resp)
  \/ ActivityPost(1)
  \/ \E resp \in PostResponses : ActivityResponse(1, resp)
  \/ OperationEnds(1)

SpecDelivery == Init /\ [][NextDelivery]_vars

\* two applications in one process: requests arrive on the blueprints of two
\* input channels with different credentials
NextShared ==
  \/ Tick
  \/ \E self \in {InputChannel, OtherInputChannel}, r \in Requests, b \in OutboundBodies :
       WebhookOn(self, r, b)
  \/ \E r \in Requests : HandlerReturn(r)
  \/ \E r \in Requests : RequestEnds(r)
  \/ \E r \in Requests, id \in RecipientIds, text \in Texts : SendTextMessage(r, id, text)
  \/ \E r \in Requests : GetHeaders(r)
  \/ \E r \in Requests, resp \in TokenResponses : TokenResponse(r, resp)
  \/ \E r \in Requests : ActivityPost(r)
  \/ \E r \in Requests, resp \in PostResponses : ActivityResponse(r, resp)
  \/ \E r \in Requests : OperationEnds(r)

SpecShared == Init /\ [][NextShared]_vars


\* the success responses of the token endpoint that hold a token and its lifetime
GoodTokenResponses ==
  { resp \in TokenResponses :
      resp.kind = "response" /\ resp.ok /\ ~ TokenDataRaises(resp.data) }

\* the sending system: one request at a time, whose handler sends texts
NextLive ==
  \/ Tick
  \/ \E b \in OutboundBodies : Webhook(1, b)
  \/ HandlerReturn(1)
  \/ RequestEnds(1)
  \/ \E id \in RecipientIds, text \in Texts : SendTextMessage(1, id, text)
  \/ GetHeaders(1)
  \/ \E resp \in TokenResponses : TokenResponse(1, resp)
  \/ ActivityPost(1)
  \/ \E resp \in PostResponses : ActivityResponse(1, resp)
  \/ OperationEnds(1)

\* the event loop runs a task that can run, and a blocking requests.post ends;
\* requests keep arriving and handlers keep sending; the token endpoint answers
\* with a token again and again when it is asked again and again
SpecLive ==
  /\ Init
  /\ [][NextLive]_vars
  /\ WF_vars(GetHeaders(1) \/ ActivityPost(1) \/ OperationEnds(1) \/ RequestEnds(1))
  /\ WF_vars(\E resp \in TokenResponses : TokenResponse(1, resp))
  /\ WF_vars(\E resp \in PostResponses : ActivityResponse(1, resp))
  /\ WF_vars(\E b \in OutboundBodies : Webhook(1, b))
  /\ SF_vars(\E id \in RecipientIds, text \in Texts : SendTextMessage(1, id, text))
  /\ SF_vars(\E resp \in GoodTokenResponses : TokenResponse(1, resp))


\* =================================================================== claims
Activity(r) == body[r].data

IsJson(r) == pc[r] # "new" /\ body[r].kind = "json"

HasKey(d, k) == k \in DOMAIN d

NonEmpty(d, k, empty) == HasKey(d, k) /\ d[k] # empty

\* C1: every POST /webhook request ends with the response 200 "success",
\* whatever its body is and whatever happens while it is handled.
C1_AlwaysSuccess ==
  \A r \in Requests : pc[r] = "responded" => response[r] = "success"

\* C2: whenever the cached token's expiration date is strictly in the future
\* when _get_headers is called, the call makes no token request, returns the
\* cached headers and leaves the cached headers and expiration date as they were.
C2_TokenReuse ==
  \A r \in Requests :
    (gh[r].kind = "call" /\ gh[r].exp > gh[r].at) =>
      /\ gh[r].calls = 0
      /\ pc[r] # "token_wait"
      /\ send_headers[r] = gh[r].cached
      /\ headers = gh[r].cached
      /\ token_expiration_date = gh[r].exp

\* a second send of one operation reuses the token a first one fetched
C2_Witness ==
  \E r \in Requests :
    /\ pc[r] = "activity_post"
    /\ gh[r].exp > gh[r].at
    /\ Len(posted[r]) = 1
    /\ send_headers[r] # NoneVal
    /\ send_headers[r] = posted[r][1].headers

\* C3: when the cached token is expired (its expiration date is not in the
\* future) or absent, a call of _get_headers makes exactly one token request,
\* and if that succeeds the cache holds expires_at = time of the response +
\* expires_in and Authorization = "Bearer <access_token>", which is returned.
C3_TokenRefresh ==
  \A r \in Requests :
    (gh[r].kind = "call" /\ (gh[r].cached = NoneVal \/ gh[r].exp <= gh[r].at)) =>
      /\ gh[r].calls = 1
      /\ (gh[r].resp # NoneVal /\ gh[r].resp.ok) =>
           /\ token_expiration_date = gh[r].stored_at + PyInt(gh[r].resp.data.expires_in)
           /\ headers.Authorization = "Bearer " \o gh[r].resp.data.access_token
           /\ send_headers[r] = headers

\* C4: while a token request is in flight (between a task's expiry check and
\* its store of the new token) no other task is inside send(): at most one
\* token request is in flight and no other task makes the expiry check.
C4_RefreshMutex ==
  \A r, q \in Requests :
    (r # q /\ pc[r] = "token_wait") => pc[q] \in {"new", "handler"}

\* a task refreshes the expired token while another request's handler is pending
C4_Witness ==
  \E r, q \in Requests :
    /\ r # q
    /\ pc[r] = "token_wait"
    /\ pc[q] = "handler"
    /\ TokenExpired(token_expiration_date, now)

\* what the claims call a complete message activity: every field the webhook reads
Complete(a) ==
  /\ {"conversation", "recipient", "serviceUrl", "from"} \subseteq DOMAIN a
  /\ HasKey(a["from"], "id")
  /\ NonEmpty(a, "attachments", <<>>) \/ NonEmpty(a, "text", "") \/ HasKey(a, "value")

\* C5: a message activity is classified by priority: non-empty attachments give
\* metadata.attachments and text = the activity's text if non-empty, else "";
\* otherwise a non-empty text gives that text and no metadata; otherwise the
\* text is json.dumps(value) and there is no metadata.  The sender is from.id
\* and the input channel is "botframework".
C5_Classification ==
  \A r \in Requests :
    (IsJson(r) /\ HasKey(Activity(r), "type") /\ Activity(r).type = "message"
       /\ Complete(Activity(r))) =>
      LET a == Activity(r)
          m == user_msg[r]
      IN /\ m # NoneVal
         /\ m.sender_id = a["from"].id
         /\ m.input_channel = "botframework"
         /\ IF NonEmpty(a, "attachments", <<>>)
            THEN /\ m.metadata = [attachments |-> a.attachments]
                 /\ m.text = IF NonEmpty(a, "text", "") THEN a.text ELSE ""
            ELSE IF NonEmpty(a, "text", "")
            THEN m.text = a.text /\ m.metadata = NoneVal
            ELSE /\ m.metadata = NoneVal
                 /\ a.value = JNull => m.text = "null"
                 /\ a.value = FooOne => m.text = "{\"foo\": 1}"

\* attachments win over a text and a value that are there too
C5_Witness ==
  \E r \in Requests :
    /\ pc[r] = "handler"
    /\ NonEmpty(Activity(r), "attachments", <<>>)
    /\ NonEmpty(Activity(r), "text", "")
    /\ HasKey(Activity(r), "value")
    /\ user_msg[r].metadata # NoneVal
    /\ user_msg[r].text = "hello"

\* C6: a message activity that lacks a field needed to build the normalized
\* message never reaches the handler and is still answered 200 "success".
C6_Resilience ==
  \A r \in Requests :
    (IsJson(r) /\ HasKey(Activity(r), "type") /\ Activity(r).type = "message"
       /\ ~ Complete(Activity(r))) =>
      /\ pc[r] = "responded"
      /\ handlerCalls[r] = 0
      /\ response[r] = "success"

\* a message activity whose `from` has no id was answered
C6_Witness ==
  \E r \in Requests :
    /\ pc[r] = "responded"
    /\ IsJson(r)
    /\ {"type", "conversation", "recipient", "serviceUrl", "from", "text"}
         \subseteq DOMAIN Activity(r)
    /\ Activity(r).type = "message"
    /\ Activity(r).text = "hello"
    /\ ~ HasKey(Activity(r)["from"], "id")

\* C7: an activity whose type is not "message" is acknowledged with success;
\* its request never invokes the handler, builds no output channel and makes
\* no token request and no activity POST.
C7_NonMessage ==
  \A r \in Requests :
    (IsJson(r) /\ HasKey(Activity(r), "type") /\ Activity(r).type # "message") =>
      /\ pc[r] = "responded"
      /\ response[r] = "success"
      /\ handlerCalls[r] = 0
      /\ out_channel[r] = NoneVal
      /\ posted[r] = <<>>
      /\ gh[r] = NoGh

\* an invoke activity that carries a value was answered while another
\* request's handler is pending
C7_Witness ==
  \E r, q \in Requests :
    /\ pc[r] = "responded"
    /\ IsJson(r)
    /\ Activity(r).type = "invoke"
    /\ HasKey(Activity(r), "value")
    /\ pc[q] = "handler"

RECURSIVE CountSeparators(_)
\* the number of non-overlapping double newlines of text, from the left
CountSeparators(text) ==
  IF Len(text) < 2 THEN 0
  ELSE IF text[1] = NL /\ text[2] = NL
       THEN 1 + CountSeparators(SubSeq(text, 3, Len(text)))
       ELSE CountSeparators(Tail(text))

\* C8: send_text_message(recipient_id, text) issues exactly k+1 activity POSTs,
\* k the number of double newlines of text, and the i-th carries the i-th piece.
C8_ParagraphSplit ==
  \A r \in Requests :
    (pc[r] = "op_end" /\ op[r].kind = "send_text_message") =>
      /\ Len(posted[r]) = CountSeparators(op[r].text) + 1
      /\ \A i \in 1..Len(posted[r]) : posted[r][i].data.text = Split(op[r].text)[i]

\* C9: the activity send_custom_json delivers holds type, recipient.id, from,
\* channelData.notification.alert and text: the json_message's own value where
\* it had one, the default where it had none; a recipient, channelData or
\* notification that was there keeps its other fields; every other field of
\* json_message is delivered as it was.
C9_FillIfAbsent ==
  \A r \in Requests :
    (op[r].kind = "send_custom_json" /\ posted[r] # <<>>) =>
      LET m == op[r].json_message
          d == posted[r][1].data
          bot == out_channel[r].bot
          mcd == IF HasKey(m, "channelData") THEN m.channelData ELSE <<>>
          mnt == IF HasKey(mcd, "notification") THEN mcd.notification ELSE <<>>
          mrc == IF HasKey(m, "recipient") THEN m.recipient ELSE <<>>
      IN /\ Len(posted[r]) = 1
         /\ DOMAIN d = DOMAIN m \cup {"type", "recipient", "from", "channelData", "text"}
         /\ d.type = IF HasKey(m, "type") THEN m.type ELSE "message"
         /\ d["from"] = IF HasKey(m, "from") THEN m["from"] ELSE bot
         /\ d.text = IF HasKey(m, "text") THEN m.text ELSE <<>>
         /\ DOMAIN d.recipient = DOMAIN mrc \cup {"id"}
         /\ d.recipient.id = IF HasKey(mrc, "id") THEN mrc.id ELSE op[r].recipient_id
         /\ \A k \in DOMAIN mrc : d.recipient[k] = mrc[k]
         /\ DOMAIN d.channelData = DOMAIN mcd \cup {"notification"}
         /\ \A k \in DOMAIN mcd \ {"notification"} : d.channelData[k] = mcd[k]
         /\ DOMAIN d.channelData.notification = DOMAIN mnt \cup {"alert"}
         /\ d.channelData.notification.alert = IF HasKey(mnt, "alert") THEN mnt.alert ELSE "true"
         /\ \A k \in DOMAIN mnt : d.channelData.notification[k] = mnt[k]
         /\ \A k \in DOMAIN m \ {"type", "recipient", "from", "channelData", "text"} :
              d[k] = m[k]

\* a message with its own text and from, a recipient without id and a
\* notification without alert was delivered
C9_Witness ==
  \E r \in Requests :
    /\ op[r].kind = "send_custom_json"
    /\ posted[r] # <<>>
    /\ {"text", "from", "recipient", "channelData", "attachments"}
         \subseteq DOMAIN op[r].json_message
    /\ ~ HasKey(op[r].json_message.recipient, "id")
    /\ HasKey(op[r].json_message.channelData, "notification")
    /\ ~ HasKey(op[r].json_message.channelData.notification, "alert")
    /\ posted[r][1].data.recipient.id = "user-1"

\* C10: send() returns normally whatever the token request and the activity
\* POST end with, and an activity is POSTed at most once.
C10_DeliverNeverRaises ==
  \A r \in Requests :
    /\ sendResult[r] # "raised"
    /\ op[r].kind = "send_custom_json" => Len(posted[r]) <= 1

\* the items the loop of a send_text_message or send_elements call goes through
Items(o) == IF o.kind = "send_text_message" THEN Split(o.text) ELSE o.elements

IsLoop(o) == o.kind \in {"send_text_message", "send_elements"}

\* within one call the POSTs are those of a prefix of the items, in order; all
\* but the last have ended with a response, and the last is in flight exactly
\* while its send() waits for it
C11_InOrder ==
  \A r \in Requests :
    IsLoop(op[r]) =>
      LET n == Len(posted[r]) IN
      /\ n <= Len(Items(op[r]))
      /\ \A i \in 1..n :
           /\ posted[r][i].data = ItemMessage(out_channel[r], op[r], Items(op[r])[i])
           /\ i < n => posted[r][i].resp \in {"ok", "not_ok"}
           /\ i = n => (posted[r][i].resp = "pending" <=> pc[r] = "activity_wait")
      /\ (pc[r] = "op_end" /\ sendResult[r] = "returned") => n = Len(Items(op[r]))

\* a response that is not ok, to an item that is not the last, takes the call to
\* the send() of the next item
C11_GoesOn ==
  \A r \in Requests :
    (/\ IsLoop(op[r])
     /\ pc[r] = "activity_wait"
     /\ pc'[r] # "activity_wait"
     /\ posted'[r][Len(posted[r])].resp = "not_ok"
     /\ queue[r] # <<>>) =>
      /\ pc'[r] = "get_headers"
      /\ message_data'[r] = ItemMessage(out_channel[r], op[r], Head(queue[r]))
      /\ queue'[r] = Tail(queue[r])

\* C11: within one send_text_message or send_elements call the POST of item
\* i+1 is issued only after that of item i has ended (at most one is in
\* flight), the items are POSTed in the order of the list, and a response that
\* is not ok to item i does not keep the items after it from being sent.
C11_Sequential == [] C11_InOrder /\ [][C11_GoesOn]_vars

\* a list of two elements was sent whole though the first POST was answered
\* not ok
C11_Witness ==
  \E r \in Requests :
    /\ pc[r] = "op_end"
    /\ op[r].kind = "send_elements"
    /\ Len(posted[r]) = 2
    /\ posted[r][1].resp = "not_ok"
    /\ posted[r][2].resp = "ok"
    /\ posted[r][1].data # posted[r][2].data

UsesPrepare(o) ==
  o.kind \in {"send_text_message", "send_image_url", "send_text_with_buttons",
              "send_elements"}

DefaultKeys == {"type", "recipient", "from", "channelData", "text"}

\* the five default fields of prepare_message
Defaults(bot, recipient_id) ==
  [type |-> "message", recipient |-> [id |-> recipient_id], from |-> bot,
   channelData |-> [notification |-> [alert |-> "true"]], text |-> <<>>]

\* d holds type, recipient.id, from and channelData.notification.alert with
\* their default values, and a text
HasDefaults(d, bot, recipient_id) ==
  /\ DefaultKeys \subseteq DOMAIN d
  /\ d.type = "message"
  /\ HasKey(d.recipient, "id") /\ d.recipient.id = recipient_id
  /\ d["from"] = bot
  /\ HasKey(d.channelData, "notification")
  /\ HasKey(d.channelData.notification, "alert")
  /\ d.channelData.notification.alert = "true"

\* C12 (as stated): every activity POSTed by send_text_message, send_image_url,
\* send_text_with_buttons or send_elements holds type = "message",
\* recipient.id = the recipient_id argument, from = the bot identity,
\* channelData.notification.alert = "true" and a text, whatever keys an element
\* of send_elements has itself.
C12_DefaultsAlways ==
  \A r \in Requests :
    UsesPrepare(op[r]) =>
      \A i \in 1..Len(posted[r]) :
        HasDefaults(posted[r][i].data, out_channel[r].bot, op[r].recipient_id)

\* C12 (amended): an activity POSTed by send_text_message, send_image_url or
\* send_text_with_buttons holds the four defaults and a text (the piece of
\* text, else the empty text); an activity POSTed by send_elements holds each of
\* the five fields with its default value only where the element has no key of
\* that name: a key of the element replaces the default whole, and the other
\* keys of the element are delivered as they are.
C12_DefaultsUnlessGiven ==
  \A r \in Requests :
    UsesPrepare(op[r]) =>
      \A i \in 1..Len(posted[r]) :
        LET d == posted[r][i].data
            dflt == Defaults(out_channel[r].bot, op[r].recipient_id)
        IN IF op[r].kind = "send_elements"
           THEN LET e == op[r].elements[i] IN
                /\ DOMAIN d = DOMAIN e \cup DefaultKeys
                /\ \A k \in DOMAIN d : d[k] = IF HasKey(e, k) THEN e[k] ELSE dflt[k]
           ELSE /\ HasDefaults(d, out_channel[r].bot, op[r].recipient_id)
                /\ op[r].kind = "send_text_message" => d.text = Split(op[r].text)[i]
                /\ op[r].kind # "send_text_message" =>
                     /\ d.text = <<>>
                     /\ DOMAIN d = DefaultKeys \cup {"attachments"}
                     /\ Len(d.attachments) = 1

\* an element with a type, a recipient, a from and a channelData of its own was
\* POSTed with them, and so without notification.alert
C12_Witness ==
  \E r \in Requests :
    /\ op[r].kind = "send_elements"
    /\ Len(posted[r]) = 1
    /\ op[r].elements[1] = FullElement
    /\ posted[r][1].data.type = "event"
    /\ ~ HasKey(posted[r][1].data.channelData, "notification")

\* the number of activities an operation sends when no send() raises
ItemCount(o) == IF IsLoop(o) THEN Len(Items(o)) ELSE 1

\* the _get_headers call of r's send() got a token response that is not ok
RefreshFailed(r) == gh[r].kind = "call" /\ gh[r].resp # NoneVal /\ ~ gh[r].resp.ok

\* C13: when the cached token is expired and the token endpoint answers with a
\* response that is not ok, _get_headers returns None (not the headers cached
\* before, even when there are some), and send() still issues exactly one
\* activity POST for its message, with no headers and so no Authorization.
C13_AuthFailureFallsThrough ==
  \A r \in Requests :
    RefreshFailed(r) =>
      /\ gh[r].calls = 1
      /\ TokenExpired(gh[r].exp, gh[r].at)
      /\ send_headers[r] = NoneVal
      /\ pc[r] \in {"activity_post", "activity_wait"}
      /\ pc[r] = "activity_post" =>
           Len(posted[r]) + Len(queue[r]) + 1 = ItemCount(op[r])
      /\ pc[r] = "activity_wait" =>
           /\ Len(posted[r]) + Len(queue[r]) = ItemCount(op[r])
           /\ posted[r][Len(posted[r])].headers = NoneVal
           /\ posted[r][Len(posted[r])].data = message_data[r]
           /\ posted[r][Len(posted[r])].resp = "pending"

\* an activity was POSTed without headers after a failed refresh, while the
\* headers of the expired token are still cached
C13_Witness ==
  \E r \in Requests :
    /\ RefreshFailed(r)
    /\ pc[r] = "activity_wait"
    /\ headers # NoneVal
    /\ gh[r].cached = headers
    /\ posted[r][Len(posted[r])].headers = NoneVal

\* a step that changes the cached headers or expiration date is the step of a
\* task whose token request ends with a success response holding both fields,
\* and stores what that response says
C14_OnlyRefreshStores ==
  (headers' # headers \/ token_expiration_date' # token_expiration_date) =>
    \E r \in Requests :
      /\ pc[r] = "token_wait"
      /\ pc'[r] = "activity_post"
      /\ gh'[r].kind = "call"
      /\ gh'[r].resp # NoneVal
      /\ gh'[r].resp.ok
      /\ ~ TokenDataRaises(gh'[r].resp.data)
      /\ headers' = BearerHeaders(gh'[r].resp.data.access_token)
      /\ token_expiration_date' = now + PyInt(gh'[r].resp.data.expires_in)

\* C14: the cached headers and expiration date change only through a success
\* response to the token request of _get_headers: a token response that is not
\* ok, a success response without access_token or expires_in, an activity POST
\* whatever its answer, the preparation of a message and the handling of a
\* webhook request all leave both as they were.
C14_CacheFrame == [][C14_OnlyRefreshStores]_vars

\* a refresh has failed and the cache still holds the expired token's headers
\* and expiration date
C14_Witness ==
  \E r \in Requests :
    /\ RefreshFailed(r)
    /\ pc[r] = "activity_post"
    /\ headers # NoneVal
    /\ headers = gh[r].cached
    /\ token_expiration_date = gh[r].exp
    /\ token_expiration_date < now

\* the handler of r has been invoked and has not returned or raised yet
InHandler(r) == pc[r] \notin {"new", "responded"}

\* no request invokes the handler twice; a well-formed message activity has
\* invoked it once, with the message built from it; no response exists while
\* the handler runs
C15_OnceAndPending ==
  \A r \in Requests :
    /\ handlerCalls[r] <= 1
    /\ InHandler(r) => (handlerCalls[r] = 1 /\ response[r] = "none")
    /\ response[r] # "none" => pc[r] = "responded"
    /\ (IsJson(r) /\ HasKey(Activity(r), "type") /\ Activity(r).type = "message"
          /\ Complete(Activity(r))) =>
         /\ handlerCalls[r] = 1
         /\ user_msg[r] # NoneVal
         /\ user_msg[r].sender_id = Activity(r)["from"].id
         /\ user_msg[r].output_channel = out_channel[r]

\* the response of a request that invoked the handler is produced by the step
\* in which the handler returns or raises
C15_AckAfterHandler ==
  \A r \in Requests :
    (response[r] = "none" /\ response'[r] # "none" /\ handlerCalls'[r] = 1) =>
      /\ pc[r] = "handler"
      /\ handlerCalls[r] = 1
      /\ pc'[r] = "responded"

\* C15: for every well-formed message activity the handler is invoked exactly
\* once, with the normalized message; the response of the request is produced
\* only after that invocation has returned or raised, never before it or while
\* it runs; no request invokes the handler more than once.
C15_DispatchBeforeAck == [] C15_OnceAndPending /\ [][C15_AckAfterHandler]_vars

\* a request is answered after its handler ended, while the handler of another
\* request is still pending
C15_Witness ==
  \E r, q \in Requests :
    /\ pc[r] = "responded"
    /\ handlerCalls[r] = 1
    /\ response[r] = "success"
    /\ pc[q] = "handler"
    /\ response[q] = "none"

\* the output channel of r is the one built from r's own activity
BoundToOwnActivity(r) ==
  out_channel[r] # NoneVal =>
    /\ IsJson(r)
    /\ out_channel[r].conversation = Activity(r).conversation
    /\ out_channel[r].bot = Activity(r).recipient
    /\ out_channel[r].global_uri = Activity(r).serviceUrl \o "v3/"
    /\ out_channel[r].app_id = InputChannel.app_id
    /\ out_channel[r].app_password = InputChannel.app_password

\* the i-th POST of r's operation goes to the conversation of r's own activity
PostedToOwnConversation(r, i) ==
  posted[r][i].uri = Activity(r).serviceUrl \o "v3/conversations/"
                       \o Activity(r).conversation.id \o "/activities"

\* the `from` the caller gave for the i-th activity of r's operation, if any
GivenFrom(o, i) ==
  IF o.kind = "send_custom_json" /\ HasKey(o.json_message, "from")
  THEN <<o.json_message["from"]>>
  ELSE IF o.kind = "send_elements" /\ HasKey(o.elements[i], "from")
  THEN <<o.elements[i]["from"]>>
  ELSE <<>>

\* C16 (as stated): every message activity has its own output channel, built
\* from its conversation, recipient and serviceUrl; whatever the interleaving
\* of the requests, every activity sent through it is POSTed to
\* {serviceUrl}v3/conversations/{conversation.id}/activities of that activity
\* and carries that activity's recipient as `from`; no send changes the channel.
C16_BoundAlways ==
  \A r \in Requests :
    /\ BoundToOwnActivity(r)
    /\ \A i \in 1..Len(posted[r]) :
         /\ PostedToOwnConversation(r, i)
         /\ posted[r][i].data["from"] = Activity(r).recipient

\* C16 (amended): as stated, except that an activity carries the originating
\* activity's recipient as `from` only when the caller's message (the
\* json_message of send_custom_json, the element of send_elements) has no
\* `from` of its own; when it has one, that value is sent.  It is never the bot
\* identity of another request.
C16_BoundUnlessGiven ==
  \A r \in Requests :
    /\ BoundToOwnActivity(r)
    /\ \A i \in 1..Len(posted[r]) :
         /\ PostedToOwnConversation(r, i)
         /\ posted[r][i].data["from"] =
              IF GivenFrom(op[r], i) = <<>> THEN Activity(r).recipient
              ELSE GivenFrom(op[r], i)[1]

\* an activity is in flight to conversation c2 of service s2 as bot-2 while the
\* handler of a request of conversation c1 is pending
C16_Witness ==
  \E r, q \in Requests :
    /\ pc[r] = "activity_wait"
    /\ pc[q] = "handler"
    /\ Activity(q).conversation.id = "c1"
    /\ posted[r][Len(posted[r])].uri = "https://s2/v3/conversations/c2/activities"
    /\ posted[r][Len(posted[r])].data["from"] = [id |-> "bot-2"]

\* C17: the one cached token serves every output channel of the process,
\* whatever its credentials: once a refresh has succeeded, _get_headers on any
\* instance, one built with another app_id and app_password included, returns
\* the cached Authorization and makes no token request, until the token expires.
C17_SharedToken ==
  \A r \in Requests :
    (gh[r].kind = "call" /\ gh[r].cached # NoneVal /\ gh[r].exp > gh[r].at) =>
      /\ gh[r].calls = 0
      /\ pc[r] # "token_wait"
      /\ headers = gh[r].cached
      /\ send_headers[r] # NoneVal
      /\ send_headers[r].Authorization = gh[r].cached.Authorization
      /\ \A i \in 1..Len(posted[r]) :
           posted[r][i].resp = "pending" =>
             posted[r][i].headers.Authorization = gh[r].cached.Authorization

\* a channel built with the credentials of app-id-2 POSTs an activity with the
\* token the endpoint issued to app-id, without a token request of its own
C17_Witness ==
  \E r \in Requests :
    /\ out_channel[r] # NoneVal
    /\ out_channel[r].app_id = "app-id-2"
    /\ pc[r] = "activity_wait"
    /\ gh[r].calls = 0
    /\ "t1" \notin IssuedTo(TokenPayload(out_channel[r]))
    /\ posted[r][Len(posted[r])].headers # NoneVal
    /\ posted[r][Len(posted[r])].headers.Authorization = "Bearer t1"

\* the object the caller gave to the operation, as it was at the call
GivenObject(o) == IF o.kind = "send_custom_json" THEN o.json_message ELSE o.elements

\* C18: no send operation changes an object its caller supplied: when
\* send_custom_json(recipient_id, m) is over, m has the fields and values it
\* had before the call, and when send_elements is over every element is as it
\* was.
C18_CallerObjectsUntouched ==
  \A r \in Requests :
    (pc[r] = "op_end" /\ op[r].kind \in {"send_custom_json", "send_elements"}) =>
      op[r].obj = GivenObject(op[r])

\* a cached expiration date in the future comes with cached bearer headers
C19_UsableHasHeaders ==
  token_expiration_date > now =>
    /\ headers # NoneVal
    /\ \E t \in {"t1", "t2", "u1"} : headers = BearerHeaders(t)

\* the two are stored by one step, from one success response: a step that
\* changes either leaves the expiration date and the headers that the response
\* of the stepping task's token request gives
C19_StoredTogether ==
  (headers' # headers \/ token_expiration_date' # token_expiration_date) =>
    \E r \in Requests :
      /\ gh[r].kind = "call" /\ gh[r].resp = NoneVal
      /\ gh'[r].kind = "call" /\ gh'[r].resp # NoneVal /\ gh'[r].resp.ok
      /\ token_expiration_date' = gh'[r].stored_at + PyInt(gh'[r].resp.data.expires_in)
      /\ token_expiration_date' > now
      /\ headers'.Authorization = "Bearer " \o gh'[r].resp.data.access_token

\* C19: at first the expiration date is not in the future and there are no
\* headers; in every reachable state an expiration date strictly later than now
\* comes with cached headers whose Authorization is the bearer value of the
\* success response that set that expiration date; the two are never updated
\* one without the other.
C19_UsableTokenUsableHeaders ==
  /\ (token_expiration_date <= now /\ headers = NoneVal)
  /\ [] C19_UsableHasHeaders
  /\ [][C19_StoredTogether]_vars

\* a task is about to test the cached token, which is usable, while the
\* handler of another request is pending
C19_Witness ==
  \E r, q \in Requests :
    /\ pc[r] = "get_headers"
    /\ pc[q] = "handler"
    /\ token_expiration_date > now
    /\ headers = BearerHeaders("t2")

\* after a failed refresh the token is still expired, and every call of
\* _get_headers that finds the token expired makes one token request
C20_StillExpired ==
  \A r \in Requests :
    /\ RefreshFailed(r) => TokenExpired(token_expiration_date, now)
    /\ (gh[r].kind = "call" /\ TokenExpired(gh[r].exp, gh[r].at)) => gh[r].calls = 1

\* an expired token stays expired until the step of a successful refresh
C20_ExpiredUntilSuccess ==
  (TokenExpired(token_expiration_date, now)
     /\ ~ TokenExpired(token_expiration_date', now')) =>
    \E r \in Requests :
      /\ pc[r] = "token_wait"
      /\ gh'[r].kind = "call" /\ gh'[r].resp # NoneVal /\ gh'[r].resp.ok

\* an activity is in flight with the Authorization of the cached token, which
\* has not expired
DeliveredWithToken ==
  \E r \in Requests :
    /\ pc[r] = "activity_wait"
    /\ headers # NoneVal
    /\ posted[r][Len(posted[r])].headers = headers
    /\ ~ TokenExpired(token_expiration_date, now)

\* C20: a failed token request leaves the token expired, so every later call
\* of _get_headers makes one token request again, until one succeeds; when the
\* token endpoint goes on answering with a token and sends keep occurring, a
\* failed refresh is followed by a send that is delivered with a valid
\* Authorization header.
C20_Recovery ==
  /\ [] C20_StillExpired
  /\ [][C20_ExpiredUntilSuccess]_vars
  /\ (\E r \in Requests : RefreshFailed(r)) ~> DeliveredWithToken

\* a refresh fails a second time in a row: the send that followed the first
\* failure asked the token endpoint again
C20_Witness ==
  \E r \in Requests :
    /\ RefreshFailed(r)
    /\ pc[r] = "activity_post"
    /\ Len(posted[r]) = 1
    /\ posted[r][1].headers = NoneVal
    /\ headers = NoneVal

====
